---- MODULE Spec2Model ----
(***************************************************************************)
(* Model of aemcli's `repo` command (src/src/aemcli/commands/repo.py):     *)
(* one invocation of checkout / put / get / status / st / diff /           *)
(* localdiff / serverdiff against a package-manager server.                *)
(*                                                                         *)
(* A path is a sequence of components; a component is a sequence of        *)
(* tokens, so that "jcr_root" can be a whole component (<<"jcr_root">>)    *)
(* or only a substring of one (<<"my_", "jcr_root">>).                     *)
(***************************************************************************)
EXTENDS Integers, Sequences, FiniteSets, TLC

\* ---------------------------------------------------------------- bounds
MaxDepth == 2

\* ------------------------------------------------------- program constants
DEFAULT_SERVER == "http://localhost:4502"
DEFAULT_CREDENTIALS == "admin:admin"
DEFAULT_PACKMGR == "/crx/packmgr/service/.json"
DEFAULT_PACKAGE_GROUP == "tmp/repo"

None == "None"

\* ------------------------------------------------------------------ inputs
Commands ==
  {"checkout", "put", "get", "status", "st", "diff", "localdiff", "serverdiff"}

\* Commands declared with the -f/--force and -q/--quiet options.
HasForceQuiet(c) == c \in {"checkout", "put", "get"}

OptServers == {None, "http://flag:4502"}
OptCredentials == {None, "flag:pw"}
FileServers == {None, "http://file:4502"}
FileCredentials == {None, "file:pw"}

JCR_ROOT == <<"jcr_root">>
Names == {JCR_ROOT, <<"my_", "jcr_root">>, <<"apps">>}
Paths == UNION {[1..n -> Names] : n \in 0..MaxDepth}

\* JCR_PATH operands of checkout, as token strings ("/" is the separator).
JcrPathOperands ==
  { <<"apps">>, <<"/">>, <<"/", "/">>, <<"/", "apps">>,
    <<"/", "apps", "/", "apps">> }

LocalStates ==
  { [kind |-> "absent", data |-> "none"],
    [kind |-> "file", data |-> "old"],
    [kind |-> "dir", data |-> "old"] }

Responses == {"ok_true", "ok_false", "ok_badjson", "http_error"}

\* Values of int(time.time()) when the package is named.
Clock == {"t1", "t2"}

\* ------------------------------------------------------------------- state
VARIABLES
  cmd,          \* the subcommand typed by the user
  handler,      \* the command function currently running
  optServer,    \* -s/--server value, None when absent
  optCredentials, \* -u/--credentials value, None when absent
  optForce,     \* -f/--force
  optQuiet,     \* -q/--quiet
  repoFile,     \* keys of the discovered .repo file
  cwd,          \* os.getcwd(), resolved
  operand,      \* checkout: JCR_PATH tokens; otherwise the resolved path
  path,         \* resolved local path the handler works on
  cwdHasJcrRoot, \* whether cwd/jcr_root exists before the invocation
  config,       \* the RepoConfig of the running handler
  auth,         \* credentials bound to the HTTP session
  filterPath,   \* filter path below jcr_root, as components
  package,      \* name/version/group written to properties.xml
  pc,           \* position in the invocation
  remote,       \* remote operations issued so far, in order
  answer,       \* outcome of click.confirm: "none", "yes", "no"
  local,        \* local content at the target path
  local0,       \* local content at the target path before the invocation
  localOps,     \* local filesystem mutations outside the temp dir, in order
  remoteKind,   \* what the extracted archive holds at the filter path
  tempDir,      \* "none", "exists", "removed"
  tempFiles,    \* entries inside the temporary directory
  exitCode,     \* -1 while running
  errKind,      \* "none", "UsageError", "ClickException", "FileExistsError"
  errMsg,       \* what the error carries
  report,       \* what status/diff showed: "none", "comparison", ...
  \* --- state of the operations that are checked on their own ---
  fnCall,       \* the operation that has been applied, "none" before
  remoteSnap,   \* REMOTE snapshot: entry below the filter path -> state
  localSnap,    \* LOCAL snapshot: entry below the filter path -> state
  statusLines,  \* what show_status_diff echoed, in order
  diffLines,    \* the content lines show_diff echoed
  nodeName,     \* argument of mangle_node_name
  mangledName,  \* result of mangle_node_name
  unmangledName, \* result of unmangle_node_name on mangledName
  fsPath,       \* argument of filesystem_to_jcr
  jcrPath,      \* filesystem_to_jcr(fsPath)
  jcrPath2,     \* filesystem_to_jcr(jcrPath)
  resolvedPath, \* argument of validate_jcr_root, resolved
  validated,    \* outcome of validate_jcr_root
  ignoreFiles,  \* ignore file name -> whether it exists and its lines
  excludes,     \* result of get_excludes
  staging,      \* entries of the staging directory handed to create_zip
  archive,      \* entries create_zip wrote, in order
  copySource,   \* source of copy_content: directories above, below, file name
  copyExcludes, \* exclude patterns handed to copy_content
  copied,       \* whether copy_content copied the file
  focCwd,       \* current_dir of find_or_create_jcr_root, resolved
  focDirs,      \* directories that exist
  focResult,    \* what find_or_create_jcr_root returned, and whether it made it
  asDryRun,     \* --dry-run of asset_remove_unused
  asRefs,       \* content file -> assets named by its image / fileReference properties
  asThumbs,     \* content file -> assets in its dam:folderThumbnailPaths
  asThumbs0,    \* asThumbs before the run
  asFolders,    \* asset folders that exist
  asPc,         \* position in asset_remove_unused
  asAnswer,     \* outcome of click.confirm: "none", "yes", "no"
  asUnused,     \* unused_assets
  asThumbOnly,  \* assets_with_thumbnail_refs
  asOps,        \* filesystem changes made, in order
  rcCmd,        \* race: command function of each of the two invocations
  rcFilter,     \* race: filter path of each invocation
  rcTime,       \* race: int(time.time()) of each invocation
  rcPc,         \* race: the remote call each invocation makes next
  rcStore,      \* race: packages on the server, with the invocation that uploaded each
  rcLog         \* race: the requests the server has answered, in order

vars ==
  << cmd, handler, optServer, optCredentials, optForce, optQuiet, repoFile,
     cwd, operand, path, cwdHasJcrRoot, config, auth, filterPath, package,
     pc, remote, answer, local, local0, localOps, remoteKind, tempDir,
     tempFiles, exitCode, errKind, errMsg, report,
     fnCall, remoteSnap, localSnap, statusLines, diffLines,
     nodeName, mangledName, unmangledName, fsPath, jcrPath, jcrPath2,
     resolvedPath, validated, ignoreFiles, excludes, staging, archive,
     copySource, copyExcludes, copied,
     focCwd, focDirs, focResult,
     asDryRun, asRefs, asThumbs, asThumbs0, asFolders, asPc, asAnswer, asUnused, asThumbOnly, asOps,
     rcCmd, rcFilter, rcTime, rcPc, rcStore, rcLog >>

\* Variables of the operations checked on their own; an invocation of the
\* command line leaves them alone.
diffVars == << remoteSnap, localSnap, statusLines, diffLines >>
mangleVars == << nodeName, mangledName, unmangledName >>
jcrVars == << fsPath, jcrPath, jcrPath2 >>
validateVars == << resolvedPath, validated >>
excludesVars == << ignoreFiles, excludes >>
zipVars == << staging, archive >>
\* --- later groups
copyVars == << copySource, copyExcludes, copied >>
findVars == << focCwd, focDirs, focResult >>
assetVars == << asDryRun, asRefs, asThumbs, asThumbs0, asFolders, asPc, asAnswer, asUnused, asThumbOnly, asOps >>
raceVars == << rcCmd, rcFilter, rcTime, rcPc, rcStore, rcLog >>
laterVars ==
  << copyVars, findVars, assetVars, raceVars >>
\* --- end of later groups
fnVars ==
  << fnCall, diffVars, mangleVars, jcrVars, validateVars, excludesVars,
     zipVars, laterVars >>

inputVars ==
  << cmd, optServer, optCredentials, optForce, optQuiet, repoFile, cwd,
     operand, cwdHasJcrRoot, local0, fnVars >>

\* ----------------------------------------------------------- RepoConfig
RepoConfigInit ==
  [ server |-> DEFAULT_SERVER, credentials |-> DEFAULT_CREDENTIALS,
    force |-> FALSE, quiet |-> FALSE,
    packmgr |-> DEFAULT_PACKMGR, package_group |-> DEFAULT_PACKAGE_GROUP ]

\* `if server: config.server = server` / `if credentials: ...`
ApplyOptions(c, server, credentials) ==
  [ c EXCEPT
      !.server = IF server # None THEN server ELSE @,
      !.credentials = IF credentials # None THEN credentials ELSE @ ]

\* RepoConfig.load_config -> _parse_config_file: a discovered key overwrites
\* the field whatever it held.
load_config(c, file) ==
  [ c EXCEPT
      !.server = IF file.server # None THEN file.server ELSE @,
      !.credentials = IF file.credentials # None THEN file.credentials ELSE @ ]

\* The first statements of every command function.
Configure(h, force, quiet, server, credentials, file) ==
  LET c0 == IF HasForceQuiet(h)
              THEN [RepoConfigInit EXCEPT !.force = force, !.quiet = quiet]
              ELSE RepoConfigInit
  IN load_config(ApplyOptions(c0, server, credentials), file)

\* -------------------------------------------------------------- paths
\* "jcr_root" in str(path)
StrContainsJcrRoot(p) ==
  \E i \in DOMAIN p : \E j \in DOMAIN p[i] : p[i][j] = "jcr_root"

\* Mutant: the first component that holds "jcr_root" anywhere is taken.
JcrRootIndex_Substring(p) ==
  IF StrContainsJcrRoot(p)
    THEN CHOOSE i \in DOMAIN p :
           /\ \E j \in DOMAIN p[i] : p[i][j] = "jcr_root"
           /\ \A k \in 1..(i - 1) : \A j \in DOMAIN p[k] : p[k][j] # "jcr_root"
    ELSE 0

\* index of the first component equal to "jcr_root", 0 when there is none
JcrRootIndex(p) ==
  IF \E i \in DOMAIN p : p[i] = JCR_ROOT
    THEN CHOOSE i \in DOMAIN p :
           p[i] = JCR_ROOT /\ \A k \in 1..(i - 1) : p[k] # JCR_ROOT
    ELSE 0

validate_jcr_root(p) ==
  IF ~StrContainsJcrRoot(p) \/ JcrRootIndex(p) = 0
    THEN [ok |-> FALSE, jcr_root_path |-> <<>>, filter_path |-> <<>>]
    ELSE [ ok |-> TRUE,
           jcr_root_path |-> SubSeq(p, 1, JcrRootIndex(p)),
           filter_path |-> SubSeq(p, JcrRootIndex(p) + 1, Len(p)) ]

\* Mutant: the root check never fires.
IsRootFilter_Never(f) == FALSE

\* filter_path == "/"
IsRootFilter(f) == f = <<>>

\* ------------------------------------------------------------- checkout
\* jcr_path.startswith("/")
StartsWithSlash(s) == Len(s) > 0 /\ Head(s) = "/"

\* jcr_path.lstrip("/")
RECURSIVE LStripSlash(_)
LStripSlash(s) ==
  IF s # <<>> /\ Head(s) = "/" THEN LStripSlash(Tail(s)) ELSE s

\* Components of a relative path string: split at "/", empty parts dropped
\* (os.path.join followed by Path.resolve).
RECURSIVE SplitSlash(_, _)
SplitSlash(s, cur) ==
  IF s = <<>>
    THEN IF cur = <<>> THEN <<>> ELSE <<cur>>
    ELSE IF Head(s) = "/"
      THEN (IF cur = <<>> THEN <<>> ELSE <<cur>>) \o SplitSlash(Tail(s), <<>>)
      ELSE SplitSlash(Tail(s), Append(cur, Head(s)))

\* index of the first component whose text contains "jcr_root"
FirstContaining(p) ==
  CHOOSE i \in DOMAIN p :
    /\ \E j \in DOMAIN p[i] : p[i][j] = "jcr_root"
    /\ \A k \in 1..(i - 1) : \A j \in DOMAIN p[k] : p[k][j] # "jcr_root"

FirstToken(c) ==
  CHOOSE j \in DOMAIN c :
    c[j] = "jcr_root" /\ \A k \in 1..(j - 1) : c[k] # "jcr_root"

\* find_or_create_jcr_root: str(cwd).split("jcr_root")[0] + "jcr_root" when
\* the text of cwd contains "jcr_root", else cwd/jcr_root (made when absent).
find_or_create_jcr_root(current, exists) ==
  IF StrContainsJcrRoot(current)
    THEN LET i == FirstContaining(current)
             c == current[i]
         IN [ path |-> Append(SubSeq(current, 1, i - 1),
                              SubSeq(c, 1, FirstToken(c))),
              created |-> FALSE ]
    ELSE [ path |-> Append(current, JCR_ROOT), created |-> ~exists ]

\* os.path.join(jcr_root_path, jcr_path.lstrip("/")), resolved
CheckoutLocalPath(current, exists, jcr_path) ==
  find_or_create_jcr_root(current, exists).path
    \o SplitSlash(LStripSlash(jcr_path), <<>>)

IsPrefix(a, b) == Len(a) <= Len(b) /\ SubSeq(b, 1, Len(a)) = a

\* ------------------------------------------------------------- packages
\* filter_path.replace("/", "-").replace(":", "")
RECURSIVE DashJoin(_)
DashJoin(f) ==
  IF f = <<>> THEN <<>>
  ELSE <<"-">> \o SelectSeq(Head(f), LAMBDA t : t # ":") \o DashJoin(Tail(f))

\* .strip("-")
RECURSIVE StripDash(_)
StripDash(s) ==
  IF s # <<>> /\ Head(s) = "-" THEN StripDash(Tail(s))
  ELSE IF s # <<>> /\ s[Len(s)] = "-" THEN StripDash(SubSeq(s, 1, Len(s) - 1))
  ELSE s

PackageName(f) ==
  LET n == StripDash(DashJoin(f))
  IN IF n # <<>> THEN <<"repo">> \o n ELSE <<"repo-root">>

\* Mutant: the package path does not carry the version.
PackagePath_NoVersion(group, name, version) ==
  [group |-> group, name |-> name, version |-> None]

\* f"{config.package_group}/{package_name}-{package_version}.zip"
PackagePath(group, name, version) ==
  [group |-> group, name |-> name, version |-> version]

\* ------------------------------------------------------------------- Init
NoPackage == [group |-> None, name |-> <<>>, version |-> None]
NoError == [op |-> "none", carries |-> "none"]

\* The target of the invocation before it runs is a state the filesystem
\* can be in: the working directory and its ancestors are directories, and
\* nothing exists below a jcr_root that does not exist yet.
LocalConsistent(c, current, op, exists, l) ==
  IF c = "checkout"
    THEN LET jr == find_or_create_jcr_root(current, exists)
             lp == CheckoutLocalPath(current, exists, op)
         IN /\ IsPrefix(lp, current) => l.kind = "dir"
            /\ jr.created => l.kind = "absent"
    ELSE op = current => l.kind = "dir"

DiffIdle ==
  /\ remoteSnap = <<>>
  /\ localSnap = <<>>
  /\ statusLines = <<>>
  /\ diffLines = {}

MangleIdle ==
  /\ nodeName = <<>>
  /\ mangledName = <<>>
  /\ unmangledName = <<>>

JcrIdle ==
  /\ fsPath = <<>>
  /\ jcrPath = <<>>
  /\ jcrPath2 = <<>>

ValidateIdle ==
  /\ resolvedPath = <<>>
  /\ validated = [ ok |-> FALSE, jcr_root_path |-> <<>>,
                   filter_path |-> <<>>, error |-> "none" ]

ExcludesIdle ==
  /\ ignoreFiles = <<>>
  /\ excludes = <<>>

ZipIdle ==
  /\ staging = {}
  /\ archive = <<>>

\* --- later idle
CopyIdle ==
  /\ copySource = <<>>
  /\ copyExcludes = {}
  /\ copied = FALSE

FindIdle ==
  /\ focCwd = <<>>
  /\ focDirs = {}
  /\ focResult = [path |-> <<>>, created |-> FALSE]

AssetIdle ==
  /\ asDryRun = FALSE
  /\ asRefs = <<>>
  /\ asThumbs = <<>>
  /\ asThumbs0 = <<>>
  /\ asFolders = {}
  /\ asPc = "idle"
  /\ asAnswer = "none"
  /\ asUnused = {}
  /\ asThumbOnly = {}
  /\ asOps = <<>>

RaceIdle ==
  /\ rcCmd = <<>>
  /\ rcFilter = <<>>
  /\ rcTime = <<>>
  /\ rcPc = <<>>
  /\ rcStore = {}
  /\ rcLog = <<>>

\* Every later group but `g` is idle.
LaterIdleExcept(g) ==
  /\ IF g = "copy" THEN TRUE ELSE CopyIdle
  /\ IF g = "find" THEN TRUE ELSE FindIdle
  /\ IF g = "asset" THEN TRUE ELSE AssetIdle
  /\ IF g = "race" THEN TRUE ELSE RaceIdle

\* Every later group but `g` is left alone.
LaterUnchangedExcept(g) ==
  /\ IF g = "copy" THEN TRUE ELSE UNCHANGED copyVars
  /\ IF g = "find" THEN TRUE ELSE UNCHANGED findVars
  /\ IF g = "asset" THEN TRUE ELSE UNCHANGED assetVars
  /\ IF g = "race" THEN TRUE ELSE UNCHANGED raceVars

LaterIdle == LaterIdleExcept("none")
\* --- end of later idle

Init ==
  /\ fnCall = "none"
  /\ DiffIdle
  /\ MangleIdle
  /\ JcrIdle
  /\ ValidateIdle
  /\ ExcludesIdle
  /\ ZipIdle
  /\ LaterIdle
  /\ cmd \in Commands
  /\ handler = cmd
  /\ optServer \in OptServers
  /\ optCredentials \in OptCredentials
  /\ optForce \in (IF HasForceQuiet(cmd) THEN BOOLEAN ELSE {FALSE})
  /\ optQuiet \in (IF HasForceQuiet(cmd) THEN BOOLEAN ELSE {FALSE})
  /\ repoFile \in [server : FileServers, credentials : FileCredentials]
  /\ operand \in (IF cmd = "checkout" THEN JcrPathOperands ELSE Paths)
  /\ cwd \in (IF cmd = "checkout" THEN Paths ELSE {operand, <<>>})
  /\ cwdHasJcrRoot \in (IF cmd = "checkout" THEN BOOLEAN ELSE {FALSE})
  /\ local0 \in LocalStates
  /\ LocalConsistent(cmd, cwd, operand, cwdHasJcrRoot, local0)
  /\ local = local0
  /\ path = IF cmd = "checkout" THEN <<>> ELSE operand
  /\ config = RepoConfigInit
  /\ auth = None
  /\ filterPath = <<>>
  /\ package = NoPackage
  /\ pc = "configure"
  /\ remote = <<>>
  /\ answer = "none"
  /\ localOps = <<>>
  /\ remoteKind = "none"
  /\ tempDir = "none"
  /\ tempFiles = {}
  /\ exitCode = -1
  /\ errKind = "none"
  /\ errMsg = NoError
  /\ report = "none"

\* No command-line invocation is running.
RepoIdle ==
  /\ cmd = "none"
  /\ handler = "none"
  /\ optServer = None
  /\ optCredentials = None
  /\ optForce = FALSE
  /\ optQuiet = FALSE
  /\ repoFile = [server |-> None, credentials |-> None]
  /\ operand = <<>>
  /\ cwd = <<>>
  /\ cwdHasJcrRoot = FALSE
  /\ local0 = [kind |-> "absent", data |-> "none"]
  /\ local = [kind |-> "absent", data |-> "none"]
  /\ path = <<>>
  /\ config = RepoConfigInit
  /\ auth = None
  /\ filterPath = <<>>
  /\ package = NoPackage
  /\ pc = "idle"
  /\ remote = <<>>
  /\ answer = "none"
  /\ localOps = <<>>
  /\ remoteKind = "none"
  /\ tempDir = "none"
  /\ tempFiles = {}
  /\ exitCode = -1
  /\ errKind = "none"
  /\ errMsg = NoError
  /\ report = "none"

repoVars ==
  << cmd, handler, optServer, optCredentials, optForce, optQuiet, repoFile,
     cwd, operand, path, cwdHasJcrRoot, config, auth, filterPath, package,
     pc, remote, answer, local, local0, localOps, remoteKind, tempDir,
     tempFiles, exitCode, errKind, errMsg, report >>

\* ------------------------------------------------------------ exit paths
\* Mutant: the directory is removed on the normal path only.
TempDirAfterExit_KeptOnError(t, kind) ==
  IF t = "exists" /\ kind = "none" THEN "removed" ELSE t

\* Leaving the `with tempfile.TemporaryDirectory()` block, by return or by
\* exception, removes the directory; before the block there is none.
TempDirAfterExit(t, kind) == IF t = "exists" THEN "removed" ELSE t

\* Mutant: a usage error reported like any other failure.
ExitCodeOf_UsageAsFailure(kind) == IF kind = "none" THEN 0 ELSE 1

\* Exit status of the process: click reports a UsageError with status 2 and
\* any other ClickException with 1; an uncaught exception ends with 1.
ExitCodeOf(kind) ==
  CASE kind = "none" -> 0
    [] kind = "UsageError" -> 2
    [] OTHER -> 1

Exit(kind, msg, t) ==
  /\ pc' = "done"
  /\ exitCode' = ExitCodeOf(kind)
  /\ errKind' = kind
  /\ errMsg' = msg
  /\ tempDir' = TempDirAfterExit(t, kind)
  /\ tempFiles' = IF TempDirAfterExit(t, kind) = "exists" THEN tempFiles ELSE {}

UsageError(text) == [op |-> "none", carries |-> text]

\* --------------------------------------------------------------- actions
\* RepoConfig(), option assignment and load_config(os.getcwd()).
DoConfigure ==
  /\ pc = "configure"
  /\ handler \notin {"st", "diff"}
  /\ config' = Configure(handler, optForce, optQuiet, optServer,
                         optCredentials, repoFile)
  /\ pc' = "validate"
  /\ UNCHANGED << inputVars, handler, path, auth, filterPath, package, remote,
                  answer, local, localOps, remoteKind, tempDir, tempFiles,
                  exitCode, errKind, errMsg, report >>

\* os.makedirs(local_path, exist_ok=True) on the target of checkout
MakedirsTarget(l) ==
  IF l.kind = "absent" THEN [kind |-> "dir", data |-> "none"] ELSE l

\* checkout: JCR path checks, find_or_create_jcr_root, makedirs, then get.
CheckoutValidate ==
  /\ pc = "validate"
  /\ handler = "checkout"
  /\ IF ~StartsWithSlash(operand)
       THEN /\ Exit("UsageError", UsageError("JCR path must start with /"),
                    tempDir)
            /\ UNCHANGED << handler, path, local, localOps >>
     ELSE IF operand = <<"/">>
       THEN /\ Exit("UsageError",
                    UsageError("Refusing to work on repository root"), tempDir)
            /\ UNCHANGED << handler, path, local, localOps >>
     ELSE
       LET jr == find_or_create_jcr_root(cwd, cwdHasJcrRoot)
           lp == CheckoutLocalPath(cwd, cwdHasJcrRoot, operand)
           l1 == IF jr.created /\ lp = jr.path
                   THEN [kind |-> "dir", data |-> "none"] ELSE local
           ops1 == IF jr.created THEN <<"mkdir_jcr_root">> ELSE <<>>
       IN IF l1.kind = "file"
            THEN /\ Exit("FileExistsError", NoError, tempDir)
                 /\ localOps' = localOps \o ops1
                 /\ UNCHANGED << handler, path, local >>
            ELSE /\ path' = lp
                 /\ local' = MakedirsTarget(l1)
                 /\ localOps' = localOps \o ops1 \o
                      (IF l1.kind = "absent" THEN <<"makedirs">> ELSE <<>>)
                 /\ handler' = "get"
                 /\ pc' = "configure"
                 /\ UNCHANGED << exitCode, errKind, errMsg, tempDir, tempFiles >>
  /\ UNCHANGED << inputVars, config, auth, filterPath, package, remote, answer,
                  remoteKind, report >>

\* st invokes status, diff invokes localdiff.
Delegate ==
  /\ pc = "configure"
  /\ handler \in {"st", "diff"}
  /\ handler' = IF handler = "st" THEN "status" ELSE "localdiff"
  /\ UNCHANGED << inputVars, path, config, auth, filterPath, package, pc,
                  remote, answer, local, localOps, remoteKind, tempDir,
                  tempFiles, exitCode, errKind, errMsg, report >>

\* put / get / status / _diff_command: validate_jcr_root and the root check.
Validate ==
  /\ pc = "validate"
  /\ handler # "checkout"
  /\ LET v == validate_jcr_root(path)
     IN IF ~v.ok
          THEN /\ Exit("UsageError",
                       UsageError("Not inside a vault checkout"), tempDir)
               /\ UNCHANGED filterPath
        ELSE IF IsRootFilter(v.filter_path)
          THEN /\ Exit("UsageError",
                       UsageError("Refusing to work on repository root"),
                       tempDir)
               /\ UNCHANGED filterPath
        ELSE /\ filterPath' = v.filter_path
             /\ pc' = "package"
             /\ UNCHANGED << exitCode, errKind, errMsg, tempDir, tempFiles >>
  /\ UNCHANGED << inputVars, handler, path, config, auth, package, remote,
                  answer, local, localOps, remoteKind, report >>

\* `if not config.force and not config.quiet:` before click.confirm
NeedsConfirm(c) == ~c.force /\ ~c.quiet

\* Position after the package has been zipped.
AfterPackage(h) == IF h = "put" THEN "confirm" ELSE "upload"

\* Temporary directory, ContentPackageManager, package name and version,
\* create_package, (put) copy of the local content, create_zip.  put on a
\* path that does not exist reaches shutil.copy2 outside the try block: the
\* FileNotFoundError is not caught, the `with` block still cleans up.
BuildPackage ==
  /\ pc = "package"
  /\ \E t \in Clock :
       package' = [ group |-> config.package_group,
                    name |-> PackageName(filterPath), version |-> t ]
  /\ auth' = config.credentials
  /\ IF handler = "put" /\ local.kind = "absent"
       THEN Exit("FileNotFoundError", NoError, "exists")
       ELSE /\ tempDir' = "exists"
            /\ tempFiles' = {"META-INF", "jcr_root", "pkg.zip"}
            /\ pc' = AfterPackage(handler)
            /\ UNCHANGED << exitCode, errKind, errMsg >>
  /\ UNCHANGED << inputVars, handler, path, config, filterPath, remote, answer,
                  local, localOps, remoteKind, report >>

\* ------------------------------------------------- ContentPackageManager
\* Mutant: the success field of the JSON body is not looked at.
Succeeds_OkOnly(op, r) == r # "http_error"

\* `response.ok` and, for the JSON commands, `result.get("success")`;
\* download_package only looks at response.ok.
Succeeds(op, r) ==
  IF op = "download" THEN r # "http_error" ELSE r = "ok_true"

\* What the raised exception carries: response.text, the parsed result, or
\* the decoder's own error when the body of an OK response is not JSON.
ErrorOf(op, r) ==
  [ op |-> op,
    carries |-> CASE r = "http_error" -> "response.text"
                  [] r = "ok_false" -> "result"
                  [] OTHER -> "JSONDecodeError" ]

\* Mutant: put deletes the package before installing it.
AfterRemote_DeleteFirst(h, op) ==
  CASE h = "put" /\ op = "upload" -> "delete"
    [] h = "put" /\ op = "delete" -> "install"
    [] h = "put" /\ op = "install" -> "done"
    [] h # "put" /\ op = "upload" -> "build"
    [] h # "put" /\ op = "build" -> "download"
    [] h # "put" /\ op = "download" -> "delete"
    [] h = "get" /\ op = "delete" -> "extract"
    [] OTHER -> "snapshot"

\* Mutant: get goes from download straight to extraction.
AfterRemote_GetSkipsDelete(h, op) ==
  CASE h = "put" /\ op = "upload" -> "install"
    [] h = "put" /\ op = "install" -> "delete"
    [] h = "put" /\ op = "delete" -> "done"
    [] h # "put" /\ op = "upload" -> "build"
    [] h # "put" /\ op = "build" -> "download"
    [] h = "get" /\ op = "download" -> "extract"
    [] h # "put" /\ op = "download" -> "delete"
    [] OTHER -> "snapshot"

\* Mutant: status and diff install the package after building it.
AfterRemote_StatusInstalls(h, op) ==
  CASE h = "put" /\ op = "upload" -> "install"
    [] h = "put" /\ op = "install" -> "delete"
    [] h = "put" /\ op = "delete" -> "done"
    [] h # "put" /\ op = "upload" -> "build"
    [] h = "get" /\ op = "build" -> "download"
    [] h # "put" /\ op = "build" -> "install"
    [] h # "put" /\ op = "install" -> "download"
    [] h # "put" /\ op = "download" -> "delete"
    [] h = "get" /\ op = "delete" -> "extract"
    [] OTHER -> "snapshot"

\* The statement that follows a successful remote call in each command.
AfterRemote(h, op) ==
  CASE h = "put" /\ op = "upload" -> "install"
    [] h = "put" /\ op = "install" -> "delete"
    [] h = "put" /\ op = "delete" -> "done"
    [] h # "put" /\ op = "upload" -> "build"
    [] h # "put" /\ op = "build" -> "download"
    [] h # "put" /\ op = "download" -> "delete"
    [] h = "get" /\ op = "delete" -> "extract"
    [] OTHER -> "snapshot"

\* One blocking request; a failure raises inside the try block and becomes
\* a ClickException.
RemoteCall(op, pkg, files) ==
  /\ pc = op
  /\ \E r \in Responses :
       /\ remote' = Append(remote,
            [ op |-> op, server |-> config.server, credentials |-> auth,
              pkg |-> pkg, resp |-> r ])
       /\ IF ~Succeeds(op, r)
            THEN Exit("ClickException", ErrorOf(op, r), tempDir)
          ELSE IF AfterRemote(handler, op) = "done"
            THEN Exit("none", NoError, tempDir)
          ELSE /\ pc' = AfterRemote(handler, op)
               /\ tempFiles' = tempFiles \cup files
               /\ UNCHANGED << tempDir, exitCode, errKind, errMsg >>
  /\ UNCHANGED << inputVars, handler, path, config, auth, filterPath, package,
                  answer, local, localOps, remoteKind, report >>

\* upload_package(zip_path): the server files the archive under the group,
\* name and version of its properties.xml.
Upload == RemoteCall("upload", package, {})

Install ==
  RemoteCall("install",
             PackagePath(config.package_group, package.name, package.version),
             {})

Build ==
  RemoteCall("build",
             PackagePath(config.package_group, package.name, package.version),
             {})

Download ==
  RemoteCall("download",
             PackagePath(config.package_group, package.name, package.version),
             {"download.zip"})

Delete ==
  RemoteCall("delete",
             PackagePath(config.package_group, package.name, package.version),
             {})

\* ----------------------------------------------------------- confirmation
\* Mutant: the answer of the prompt is ignored.
AfterConfirm_IgnoreDecline(h, a) == IF h = "put" THEN "upload" ELSE "overwrite"

\* Where the command goes once click.confirm has returned.
AfterConfirm(h, a) ==
  IF a = "no" THEN "done" ELSE IF h = "put" THEN "upload" ELSE "overwrite"

\* put: "Upload and overwrite on server?"; get: "Download and overwrite
\* locally?".  Without a prompt the command goes on as if accepted.
Confirm ==
  /\ pc = "confirm"
  /\ IF NeedsConfirm(config)
       THEN \E a \in {"yes", "no"} :
              /\ answer' = a
              /\ IF AfterConfirm(handler, a) = "done"
                   THEN Exit("none", NoError, tempDir)
                   ELSE /\ pc' = AfterConfirm(handler, a)
                        /\ UNCHANGED << tempDir, tempFiles, exitCode, errKind,
                                        errMsg >>
       ELSE /\ pc' = AfterConfirm(handler, "yes")
            /\ UNCHANGED << answer, tempDir, tempFiles, exitCode, errKind,
                            errMsg >>
  /\ UNCHANGED << inputVars, handler, path, config, auth, filterPath, package,
                  remote, local, localOps, remoteKind, report >>

\* ----------------------------------------------------------------- get
RemoteKinds == {"absent", "file", "dir"}

\* zf.extractall(extract_dir); a damaged archive raises inside the try block.
Extract ==
  /\ pc = "extract"
  /\ \E ok \in BOOLEAN, k \in RemoteKinds :
       IF ~ok
         THEN /\ Exit("ClickException",
                      [op |-> "extract", carries |-> "BadZipFile"], tempDir)
              /\ UNCHANGED remoteKind
         ELSE /\ remoteKind' = k
              /\ tempFiles' = tempFiles \cup {"extracted"}
              /\ pc' = "confirm"
              /\ UNCHANGED << tempDir, exitCode, errKind, errMsg >>
  /\ UNCHANGED << inputVars, handler, path, config, auth, filterPath, package,
                  remote, answer, local, localOps, report >>

\* "Remove existing content first": rmtree, or item-by-item removal when the
\* target is the current directory, or os.remove for a file.
RemoveExisting(l, isCwd) ==
  IF l.kind = "absent" THEN <<>>
  ELSE IF l.kind = "dir"
    THEN IF ~isCwd THEN <<"rmtree">> ELSE <<"remove_items">>
    ELSE <<"remove">>

\* Local content after removal and copy of the extracted subtree.
Overwritten(l, isCwd, k) ==
  IF l.kind = "dir" /\ isCwd THEN [kind |-> "dir", data |-> "new"]
  ELSE [kind |-> k, data |-> "new"]

\* Mutant: the existing content is replaced without looking at the source.
SourceExists_NotChecked(k) == TRUE

\* os.path.exists(source_path)
SourceExists(k) == k # "absent"

\* if os.path.exists(source_path): remove, copy, report; else warn.
Overwrite ==
  /\ pc = "overwrite"
  /\ IF ~SourceExists(remoteKind)
       THEN UNCHANGED << local, localOps >>
       ELSE /\ localOps' = localOps \o RemoveExisting(local, path = cwd)
                             \o <<"copy">>
            /\ local' = Overwritten(local, path = cwd, remoteKind)
  /\ Exit("none", NoError, tempDir)
  /\ UNCHANGED << inputVars, handler, path, config, auth, filterPath, package,
                  remote, answer, remoteKind, report >>

\* --------------------------------------------------------- status / diff
\* diffbase: extracted archive, REMOTE symlink, LOCAL copy of the content.
Snapshot ==
  /\ pc = "snapshot"
  /\ \E ok \in BOOLEAN, k \in RemoteKinds :
       IF ~ok
         THEN /\ Exit("ClickException",
                      [op |-> "extract", carries |-> "BadZipFile"], tempDir)
              /\ UNCHANGED remoteKind
         ELSE /\ remoteKind' = k
              /\ tempFiles' =
                   tempFiles \cup {"diffbase", "extracted", "REMOTE", "LOCAL"}
              /\ pc' = "show"
              /\ UNCHANGED << tempDir, exitCode, errKind, errMsg >>
  /\ UNCHANGED << inputVars, handler, path, config, auth, filterPath, package,
                  remote, answer, local, localOps, report >>

DiffTool == {"ran", "missing", "timeout"}

\* show_status_diff / show_diff: FileNotFoundError and TimeoutExpired are
\* caught and reported.
ReportOf(tool) ==
  CASE tool = "ran" -> "comparison"
    [] tool = "missing" -> "Diff command not available"
    [] OTHER -> "Diff operation timed out"

\* Mutant: a missing diff executable is not caught.
ShowExitKind_MissingFails(tool) ==
  IF tool = "missing" THEN "ClickException" ELSE "none"

\* The except clauses of show_status_diff / show_diff echo and return: no
\* outcome of the diff tool raises.
ShowExitKind(tool) == "none"

Show ==
  /\ pc = "show"
  /\ \E tool \in DiffTool :
       /\ report' = ReportOf(tool)
       /\ Exit(ShowExitKind(tool), NoError, tempDir)
  /\ UNCHANGED << inputVars, handler, path, config, auth, filterPath, package,
                  remote, answer, local, localOps, remoteKind >>

\* ---------------------------------------------------------- specification
Next ==
  \/ DoConfigure
  \/ Delegate
  \/ CheckoutValidate
  \/ Validate
  \/ BuildPackage
  \/ Confirm
  \/ Upload
  \/ Install
  \/ Build
  \/ Download
  \/ Delete
  \/ Extract
  \/ Overwrite
  \/ Snapshot
  \/ Show

Spec == Init /\ [][Next]_vars

\* ================================================================ claims
Issued(op) == \E i \in DOMAIN remote : remote[i].op = op

\* The user agreed to the operation: -f/--force, or "yes" at the prompt.
Consented == optForce \/ answer = "yes"

\* C1: when -s/--server or -u/--credentials is given, every remote operation
\* of the invocation uses the flag's value, also when the discovered .repo
\* file defines the same key.
C1_FlagsOverrideConfigFile ==
  \A i \in DOMAIN remote :
    /\ optServer # None => remote[i].server = optServer
    /\ optCredentials # None => remote[i].credentials = optCredentials

\* C2: put never issues upload (nor install, delete) unless the force flag
\* is set or the user accepted the prompt, whatever force and quiet are.
C2_PutUploadNeedsConsent ==
  (cmd = "put" /\ remote # <<>>) => Consented

\* C3: get (and checkout through it) never removes or overwrites existing
\* local content unless the force flag is set or the user accepted the
\* prompt, whatever force and quiet are.
C3_GetOverwriteNeedsConsent ==
  ( /\ cmd \in {"get", "checkout"}
    /\ local0.kind # "absent"
    /\ \E i \in DOMAIN localOps :
         localOps[i] \in {"rmtree", "remove_items", "remove", "copy"} )
  => Consented

\* C4: a declined confirmation of put ends the invocation at once with exit
\* status 0 and no error, no remote operation issued and the local content
\* untouched.
C4_PutDeclineCleanAbort ==
  (cmd = "put" /\ answer = "no") =>
    /\ pc = "done"
    /\ exitCode = 0
    /\ errKind = "none"
    /\ remote = <<>>
    /\ local = local0
    /\ localOps = <<>>

C4_Witness == cmd = "put" /\ answer = "no" /\ pc = "done"

\* The operand names the repository root: "/" for checkout, otherwise a
\* path whose last component is the jcr_root directory of the checkout.
RootOperand ==
  IF cmd = "checkout"
    THEN operand = <<"/">>
    ELSE /\ operand # <<>>
         /\ operand[Len(operand)] = JCR_ROOT
         /\ \A k \in 1..(Len(operand) - 1) : operand[k] # JCR_ROOT

\* C5: every command rejects a root operand with a UsageError: the
\* invocation never gets past validation and ends in that error.
C5_RootRejected ==
  RootOperand =>
    /\ pc \in {"configure", "validate", "done"}
    /\ pc = "done" => errKind = "UsageError"

C5_Witness ==
  /\ RootOperand
  /\ cmd \in {"put", "get", "status", "diff", "localdiff", "serverdiff"}
  /\ pc = "done"
  /\ errKind = "UsageError"

\* C6: an invocation that ends with a UsageError exits with status 2 and has
\* issued no remote operation.
C6_UsageErrorBeforeRemote ==
  errKind = "UsageError" => (exitCode = 2 /\ remote = <<>>)

C6_Witness ==
  /\ cmd = "checkout"
  /\ handler = "get"
  /\ pc = "done"
  /\ errKind = "UsageError"

\* A remote operation came back non-OK, or with a JSON body whose success
\* field is not true (download has no such body).
FailedResponse(r) ==
  \/ r.resp = "http_error"
  \/ r.op # "download" /\ r.resp = "ok_false"

\* C7: each remote operation is issued at most once, and a failed one is the
\* last: the invocation has ended in an error carrying the server response.
C7_NoRetryFailFast ==
  /\ \A i, j \in DOMAIN remote : remote[i].op = remote[j].op => i = j
  /\ \A i \in DOMAIN remote :
       FailedResponse(remote[i]) =>
         /\ i = Len(remote)
         /\ pc = "done"
         /\ errKind = "ClickException"
         /\ exitCode # 0
         /\ errMsg.op = remote[i].op
         /\ errMsg.carries \in {"response.text", "result"}

C7_Witness ==
  /\ Len(remote) = 2
  /\ remote[2].op = "build"
  /\ remote[2].resp = "ok_false"
  /\ pc = "done"

\* C8: when put, get, status or diff has ended, on any exit path, its
\* temporary directory and everything in it is gone.
C8_TempDirRemoved ==
  pc = "done" => (tempDir # "exists" /\ tempFiles = {})

C8_Witness ==
  /\ pc = "done"
  /\ tempDir = "removed"
  /\ errKind = "ClickException"
  /\ Issued("download")

PutOrder == <<"upload", "install", "delete">>

\* C9: put issues upload, install, delete in that order, each only after the
\* one before succeeded, all on the package path group/name-version.zip,
\* and never build or download.
C9_PutOrder ==
  cmd = "put" =>
    /\ Len(remote) <= 3
    /\ \A i \in DOMAIN remote :
         /\ remote[i].op = PutOrder[i]
         /\ remote[i].pkg = [ group |-> DEFAULT_PACKAGE_GROUP,
                              name |-> PackageName(filterPath),
                              version |-> package.version ]
         /\ i > 1 => remote[i - 1].resp = "ok_true"

C9_Witness == cmd = "put" /\ Len(remote) = 3 /\ pc = "done"

\* C10: a get in which upload, build and download succeeded has issued
\* delete before it asks for confirmation and before it ends, whether the
\* user accepts or declines.
C10_GetDeletes ==
  ( /\ handler = "get"
    /\ \E i \in DOMAIN remote :
         remote[i].op = "download" /\ remote[i].resp # "http_error"
    /\ (pc = "done" \/ answer # "none") )
  => Issued("delete")

C10_Witness ==
  /\ handler = "get"
  /\ answer = "no"
  /\ pc = "done"
  /\ Issued("delete")

\* ================================================= status and diff output
\* Text is a sequence of tokens; a pattern occurs in a text when its tokens
\* occur there one after the other.
HasSub(s, pat) ==
  \E i \in 0..(Len(s) - Len(pat)) : SubSeq(s, i + 1, i + Len(pat)) = pat

StartsWith(s, pat) == Len(pat) <= Len(s) /\ SubSeq(s, 1, Len(pat)) = pat

FirstSub(s, pat) ==
  CHOOSE i \in 0..(Len(s) - Len(pat)) :
    /\ SubSeq(s, i + 1, i + Len(pat)) = pat
    /\ \A k \in 0..(i - 1) : SubSeq(s, k + 1, k + Len(pat)) # pat

\* s.split(pat, 1)[0] and [1], for a text that holds the pattern
BeforeFirst(s, pat) == SubSeq(s, 1, FirstSub(s, pat))
AfterFirst(s, pat) == SubSeq(s, FirstSub(s, pat) + Len(pat) + 1, Len(s))

\* s.split(" ")[1]: the text between the first and the second blank
SecondField(s) ==
  LET rest == AfterFirst(s, <<" ">>)
  IN IF HasSub(rest, <<" ">>) THEN BeforeFirst(rest, <<" ">>) ELSE rest

\* s.replace(tok, "")
Without(s, tok) == SelectSeq(s, LAMBDA t : t # tok)

\* Entries below the filter path and what a snapshot holds there: nothing,
\* a file with content "1" or "2", or an (empty) directory.
EntryOrder == <<"x.txt", "y.txt", "z.txt">>
EntryNames == {EntryOrder[i] : i \in DOMAIN EntryOrder}
EntryStates == {"absent", "1", "2", "dir"}
IsFile(st) == st \in {"1", "2"}

\* filter_path of the invocation and the diffbase directory inside the
\* temporary directory (absolute, as tempfile returns it).
FILTER_PATH == <<"/", "a">>
DIFF_BASE == <<"/", "tmp", "/", "tmpk3", "/", "diffbase">>

\* os.path.join(left_dir, "REMOTE" + filter_path)
DiffArg(side) == DIFF_BASE \o <<"/", side>> \o FILTER_PATH

\* The line `diff -rq REMOTE... LOCAL...` prints for one entry (GNU diff).
DiffRqLine(n, r, l) ==
  CASE IsFile(r) /\ IsFile(l) /\ r # l ->
         << <<"Files", " ">> \o DiffArg("REMOTE") \o <<"/", n>>
              \o <<" ", "and", " ">> \o DiffArg("LOCAL") \o <<"/", n>>
              \o <<" ", "differ">> >>
    [] r = "absent" /\ l # "absent" ->
         << <<"Only in ">> \o DiffArg("LOCAL") \o <<": ", n>> >>
    [] r # "absent" /\ l = "absent" ->
         << <<"Only in ">> \o DiffArg("REMOTE") \o <<": ", n>> >>
    [] IsFile(r) /\ l = "dir" ->
         << <<"File", " ">> \o DiffArg("REMOTE") \o <<"/", n>>
              \o <<" ", "is a regular file while file", " ">>
              \o DiffArg("LOCAL") \o <<"/", n>> \o <<" ", "is a directory">> >>
    [] r = "dir" /\ IsFile(l) ->
         << <<"File", " ">> \o DiffArg("REMOTE") \o <<"/", n>>
              \o <<" ", "is a directory while file", " ">>
              \o DiffArg("LOCAL") \o <<"/", n>>
              \o <<" ", "is a regular file">> >>
    [] OTHER -> <<>>

RECURSIVE DiffRq(_, _, _)
DiffRq(order, rs, ls) ==
  IF order = <<>> THEN <<>>
  ELSE DiffRqLine(Head(order), rs[Head(order)], ls[Head(order)])
         \o DiffRq(Tail(order), rs, ls)

\* The if/elif chain of show_status_diff for one line of output.
StatusOfLine(line) ==
  IF StartsWith(line, <<"Files", " ">>) /\ HasSub(line, <<" ", "differ">>)
    THEN << [ code |-> "M",
              path |-> Without(Without(SecondField(line), "REMOTE"),
                               "LOCAL") ] >>
  ELSE IF HasSub(line, <<"Only in ", "LOCAL">>)
    THEN LET match == AfterFirst(line, <<"Only in ", "LOCAL">>)
         IN IF HasSub(match, <<": ">>)
              THEN << [ code |-> "A",
                        path |-> BeforeFirst(match, <<": ">>) \o <<"/">>
                                   \o AfterFirst(match, <<": ">>) ] >>
              ELSE <<>>
  ELSE IF HasSub(line, <<"Only in ", "REMOTE">>)
    THEN LET match == AfterFirst(line, <<"Only in ", "REMOTE">>)
         IN IF HasSub(match, <<": ">>)
              THEN << [ code |-> "D",
                        path |-> BeforeFirst(match, <<": ">>) \o <<"/">>
                                   \o AfterFirst(match, <<": ">>) ] >>
              ELSE <<>>
  ELSE IF /\ HasSub(line, <<"File", " ", "REMOTE">>)
          /\ HasSub(line, <<"is a regular file while file">>)
    THEN << [code |-> "~ df", path |-> Without(SecondField(line), "REMOTE")] >>
  ELSE IF /\ HasSub(line, <<"File", " ", "REMOTE">>)
          /\ HasSub(line, <<"is a directory while file">>)
    THEN << [code |-> "~ fd", path |-> Without(SecondField(line), "REMOTE")] >>
  ELSE <<>>

RECURSIVE StatusOfLines(_)
StatusOfLines(lines) ==
  IF lines = <<>> THEN <<>>
  ELSE StatusOfLine(Head(lines)) \o StatusOfLines(Tail(lines))

show_status_diff(rs, ls) == StatusOfLines(DiffRq(EntryOrder, rs, ls))

\* The content lines `diff -rduNw REMOTE... LOCAL...` prints for one entry:
\* "-" for a line of the first operand, "+" for a line of the second.
DiffUnifiedLines(n, r, l) ==
  IF r = l \/ r = "dir" \/ l = "dir" THEN {}
  ELSE (IF IsFile(r) THEN {[sign |-> "-", entry |-> n, text |-> r]} ELSE {})
         \cup
       (IF IsFile(l) THEN {[sign |-> "+", entry |-> n, text |-> l]} ELSE {})

\* show_diff passes the output on, coloured by the first character.
show_diff(rs, ls) ==
  UNION {DiffUnifiedLines(n, rs[n], ls[n]) : n \in EntryNames}

\* _diff_command: `inverse` selects the banner text only.
DiffCommand(rs, ls, inverse) == show_diff(rs, ls)

otherThanDiff ==
  << mangleVars, jcrVars, validateVars, excludesVars, zipVars,
     laterVars >>

InitDiff ==
  /\ RepoIdle
  /\ fnCall = "none"
  /\ remoteSnap \in [EntryNames -> EntryStates]
  /\ localSnap \in [EntryNames -> EntryStates]
  /\ statusLines = <<>>
  /\ diffLines = {}
  /\ MangleIdle
  /\ JcrIdle
  /\ ValidateIdle
  /\ ExcludesIdle
  /\ ZipIdle
  /\ LaterIdle

RunStatus ==
  /\ fnCall = "none"
  /\ fnCall' = "status"
  /\ statusLines' = show_status_diff(remoteSnap, localSnap)
  /\ UNCHANGED << repoVars, remoteSnap, localSnap, diffLines, otherThanDiff >>

RunLocaldiff ==
  /\ fnCall = "none"
  /\ fnCall' = "localdiff"
  /\ diffLines' = DiffCommand(remoteSnap, localSnap, FALSE)
  /\ UNCHANGED << repoVars, remoteSnap, localSnap, statusLines, otherThanDiff >>

RunServerdiff ==
  /\ fnCall = "none"
  /\ fnCall' = "serverdiff"
  /\ diffLines' = DiffCommand(remoteSnap, localSnap, TRUE)
  /\ UNCHANGED << repoVars, remoteSnap, localSnap, statusLines, otherThanDiff >>

NextDiff == RunStatus \/ RunLocaldiff \/ RunServerdiff

SpecDiff == InitDiff /\ [][NextDiff]_vars

\* The repository path of an entry below the filter path.
RepoPathOf(n) == FILTER_PATH \o <<"/", n>>

StatusSet == {statusLines[i] : i \in DOMAIN statusLines}

\* What status is to report with M, A and D for the two snapshots.
ExpectedMAD ==
  { [code |-> "M", path |-> RepoPathOf(n)] :
      n \in {m \in EntryNames :
               /\ IsFile(remoteSnap[m]) /\ IsFile(localSnap[m])
               /\ remoteSnap[m] # localSnap[m]} }
  \cup
  { [code |-> "A", path |-> RepoPathOf(n)] :
      n \in {m \in EntryNames :
               remoteSnap[m] = "absent" /\ localSnap[m] # "absent"} }
  \cup
  { [code |-> "D", path |-> RepoPathOf(n)] :
      n \in {m \in EntryNames :
               remoteSnap[m] # "absent" /\ localSnap[m] = "absent"} }

\* C11: status reports exactly M for each file that differs, A for each
\* path only under LOCAL and D for each path only under REMOTE, each with
\* the repository path.
C11_StatusReportsMAD ==
  fnCall = "status" =>
    {ln \in StatusSet : ln.code \in {"M", "A", "D"}} = ExpectedMAD

\* C12: status reports "~ df" for a path that is a file under REMOTE and a
\* directory under LOCAL, and "~ fd" for a directory under REMOTE that is a
\* file under LOCAL.
C12_StatusReportsConflicts ==
  fnCall = "status" =>
    \A n \in EntryNames :
      /\ (IsFile(remoteSnap[n]) /\ localSnap[n] = "dir")
           => [code |-> "~ df", path |-> RepoPathOf(n)] \in StatusSet
      /\ (remoteSnap[n] = "dir" /\ IsFile(localSnap[n]))
           => [code |-> "~ fd", path |-> RepoPathOf(n)] \in StatusSet

\* C13: content only in the local snapshot is shown with "+" by localdiff
\* and with "-" by serverdiff; content only in the remote snapshot with "-"
\* by localdiff and with "+" by serverdiff.
C13_DiffDirections ==
  fnCall \in {"localdiff", "serverdiff"} =>
    \A n \in EntryNames :
      /\ (remoteSnap[n] = "absent" /\ IsFile(localSnap[n])) =>
           [ sign |-> IF fnCall = "localdiff" THEN "+" ELSE "-",
             entry |-> n, text |-> localSnap[n] ] \in diffLines
      /\ (IsFile(remoteSnap[n]) /\ localSnap[n] = "absent") =>
           [ sign |-> IF fnCall = "localdiff" THEN "-" ELSE "+",
             entry |-> n, text |-> remoteSnap[n] ] \in diffLines

\* ===================================================== node name mangling
\* A node name is a sequence of characters; "a" stands for any character
\* other than the colon and the underscore.
MaxNameLen == 4
NameChars == {"a", "_", ":"}
NodeNames == UNION {[1..n -> NameChars] : n \in 0..MaxNameLen}

HasChar(s, c) == \E i \in DOMAIN s : s[i] = c

\* node_name.replace(":", "_")
ReplaceColons(s) == [i \in DOMAIN s |-> IF s[i] = ":" THEN "_" ELSE s[i]]

\* Mutant: only the first colon is replaced.
mangle_node_name_FirstColon(node_name) ==
  IF HasChar(node_name, ":")
    THEN <<"_">> \o BeforeFirst(node_name, <<":">>) \o <<"_">>
           \o AfterFirst(node_name, <<":">>)
    ELSE node_name

mangle_node_name(node_name) ==
  IF HasChar(node_name, ":")
    THEN <<"_">> \o ReplaceColons(node_name)
    ELSE node_name

\* Mutant: the leading underscore is kept in the first part.
unmangle_node_name_KeepsMarker(mangled_name) ==
  IF StartsWith(mangled_name, <<"_">>) /\ HasChar(Tail(mangled_name), "_")
    THEN <<"_">> \o BeforeFirst(Tail(mangled_name), <<"_">>) \o <<":">>
           \o AfterFirst(Tail(mangled_name), <<"_">>)
    ELSE mangled_name

\* mangled_name[1:].split("_", 1) always has two parts when the rest holds
\* an underscore.
unmangle_node_name(mangled_name) ==
  IF StartsWith(mangled_name, <<"_">>) /\ HasChar(Tail(mangled_name), "_")
    THEN BeforeFirst(Tail(mangled_name), <<"_">>) \o <<":">>
           \o AfterFirst(Tail(mangled_name), <<"_">>)
    ELSE mangled_name

otherThanMangle ==
  << diffVars, jcrVars, validateVars, excludesVars, zipVars,
     laterVars >>

InitMangle ==
  /\ RepoIdle
  /\ fnCall = "none"
  /\ DiffIdle
  /\ nodeName \in NodeNames
  /\ mangledName = <<>>
  /\ unmangledName = <<>>
  /\ JcrIdle
  /\ ValidateIdle
  /\ ExcludesIdle
  /\ ZipIdle
  /\ LaterIdle

Mangle ==
  /\ fnCall = "none"
  /\ fnCall' = "mangle"
  /\ mangledName' = mangle_node_name(nodeName)
  /\ UNCHANGED << repoVars, nodeName, unmangledName, otherThanMangle >>

Unmangle ==
  /\ fnCall = "mangle"
  /\ fnCall' = "unmangle"
  /\ unmangledName' = unmangle_node_name(mangledName)
  /\ UNCHANGED << repoVars, nodeName, mangledName, otherThanMangle >>

NextMangle == Mangle \/ Unmangle

SpecMangle == InitMangle /\ [][NextMangle]_vars

Colons(s) == {i \in DOMAIN s : s[i] = ":"}

\* The part of a name before its first colon.
PrefixOf(s) == BeforeFirst(s, <<":">>)

\* C14 as stated: every name with exactly one colon survives the round
\* trip unmangle(mangle(name)), underscores in the prefix included.
C14_RoundTripOneColon ==
  (fnCall = "unmangle" /\ Cardinality(Colons(nodeName)) = 1)
    => unmangledName = nodeName

\* C14 amended: every name with exactly one colon and no underscore before
\* the colon survives the round trip unmangle(mangle(name)).
C14_RoundTripPlainPrefix ==
  ( /\ fnCall = "unmangle"
    /\ Cardinality(Colons(nodeName)) = 1
    /\ ~HasChar(PrefixOf(nodeName), "_") )
    => unmangledName = nodeName

\* A name with a plain prefix and an underscore after the colon came back.
C14_Witness ==
  /\ fnCall = "unmangle"
  /\ Cardinality(Colons(nodeName)) = 1
  /\ PrefixOf(nodeName) = <<"a">>
  /\ HasChar(AfterFirst(nodeName, <<":">>), "_")
  /\ unmangledName = nodeName

\* C15 as stated: a name without a colon is returned unchanged; otherwise
\* the result is "_" followed by the name with only its first colon
\* replaced by "_".
C15_MangleFirstColon ==
  fnCall # "none" =>
    mangledName =
      IF Colons(nodeName) = {} THEN nodeName
      ELSE <<"_">> \o PrefixOf(nodeName) \o <<"_">>
             \o AfterFirst(nodeName, <<":">>)

\* C15 amended: a name without a colon is returned unchanged; otherwise the
\* result is "_" followed by the name with every colon replaced by "_".
C15_MangleEveryColon ==
  fnCall # "none" =>
    IF Colons(nodeName) = {} THEN mangledName = nodeName
    ELSE /\ Len(mangledName) = Len(nodeName) + 1
         /\ mangledName[1] = "_"
         /\ \A i \in DOMAIN nodeName :
              mangledName[i + 1] = IF i \in Colons(nodeName) THEN "_"
                                   ELSE nodeName[i]

\* A name with two colons has been mangled.
C15_Witness ==
  /\ fnCall = "mangle"
  /\ Cardinality(Colons(nodeName)) = 2
  /\ Colons(mangledName) = {}

\* ======================================================= filesystem_to_jcr
\* A path is a sequence of atoms.  "_", "/", ".content", ".xml" and "%" are
\* the texts the conversion looks for; "25" and "5F" are the hex digits of
\* the escapes of "%" and "_" (and plain text elsewhere); the remaining
\* atoms are the namespace prefixes.
MaxPathLen == 4
Namespaces ==
  {"jcr", "rep", "oak", "sling", "granite", "cq", "dam", "exif", "social"}
PathAtoms == {"_", "/", ".content", ".xml", "%", "25", "5F"}

\* Two tokens that share an underscore, as in "_cq_jcr_".
OverlapPaths == {<<"_", a, "_", b, "_">> : a, b \in Namespaces}

\* Paths that mention "jcr" and at most one more namespace prefix, and the
\* overlapping tokens.
FsPaths ==
  OverlapPaths \cup
  UNION { UNION {[1..n -> PathAtoms \cup {"jcr", ns}] : n \in 0..MaxPathLen}
          : ns \in Namespaces }

EndsWith(s, suf) ==
  Len(suf) <= Len(s) /\ SubSeq(s, Len(s) - Len(suf) + 1, Len(s)) = suf

DropLast(s, k) == SubSeq(s, 1, Len(s) - k)

\* Mutant: a trailing slash is stripped as well.
StripSuffix_AlsoSlash(p) ==
  IF EndsWith(p, <<"/", ".content", ".xml">>) THEN DropLast(p, 3)
  ELSE IF EndsWith(p, <<".content", ".xml">>) THEN DropLast(p, 2)
  ELSE IF EndsWith(p, <<".xml">>) THEN DropLast(p, 1)
  ELSE IF EndsWith(p, <<"/">>) THEN DropLast(p, 1)
  ELSE p

\* Mutant: the three suffix checks are independent `if`s.
StripSuffix_Repeated(p) ==
  LET p1 == IF EndsWith(p, <<"/", ".content", ".xml">>)
              THEN DropLast(p, 3) ELSE p
      p2 == IF EndsWith(p1, <<".content", ".xml">>)
              THEN DropLast(p1, 2) ELSE p1
  IN IF EndsWith(p2, <<".xml">>) THEN DropLast(p2, 1) ELSE p2

\* the if/elif/elif on path.endswith(...)
StripSuffix(p) ==
  IF EndsWith(p, <<"/", ".content", ".xml">>) THEN DropLast(p, 3)
  ELSE IF EndsWith(p, <<".content", ".xml">>) THEN DropLast(p, 2)
  ELSE IF EndsWith(p, <<".xml">>) THEN DropLast(p, 1)
  ELSE p

\* str.replace(old, new): leftmost occurrences, not overlapping
RECURSIVE Replace(_, _, _)
Replace(s, old, new) ==
  IF Len(s) < Len(old) THEN s
  ELSE IF StartsWith(s, old)
    THEN new \o Replace(SubSeq(s, Len(old) + 1, Len(s)), old, new)
  ELSE <<Head(s)>> \o Replace(Tail(s), old, new)

\* the `replacements` list, in its order
NamespaceOrder ==
  <<"jcr", "rep", "oak", "sling", "granite", "cq", "dam", "exif", "social">>
TokenOf(ns) == <<"_", ns, "_">>
ColonFormOf(ns) == <<ns, ":">>

\* for old, new in replacements: path = path.replace(old, new)
RECURSIVE ApplyReplacements(_, _)
ApplyReplacements(p, order) ==
  IF order = <<>> THEN p
  ELSE ApplyReplacements(
         Replace(p, TokenOf(Head(order)), ColonFormOf(Head(order))),
         Tail(order))

\* The escapes the atoms can spell: %25 is "%", %5F is "_".
IsHex(a) == a \in {"25", "5F"}
Unhex(a) == IF a = "25" THEN "%" ELSE "_"

\* urllib.parse.unquote: one pass, an escape is decoded once
RECURSIVE Unquote(_)
Unquote(s) ==
  IF s = <<>> THEN <<>>
  ELSE IF Head(s) = "%" /\ Len(s) >= 2 /\ IsHex(s[2])
    THEN <<Unhex(s[2])>> \o Unquote(SubSeq(s, 3, Len(s)))
  ELSE <<Head(s)>> \o Unquote(Tail(s))

filesystem_to_jcr(p) ==
  Unquote(ApplyReplacements(StripSuffix(p), NamespaceOrder))

otherThanJcr ==
  << diffVars, mangleVars, validateVars, excludesVars, zipVars,
     laterVars >>

InitJcr ==
  /\ RepoIdle
  /\ fnCall = "none"
  /\ DiffIdle
  /\ MangleIdle
  /\ fsPath \in FsPaths
  /\ jcrPath = <<>>
  /\ jcrPath2 = <<>>
  /\ ValidateIdle
  /\ ExcludesIdle
  /\ ZipIdle
  /\ LaterIdle

Convert ==
  /\ fnCall = "none"
  /\ fnCall' = "converted"
  /\ jcrPath' = filesystem_to_jcr(fsPath)
  /\ UNCHANGED << repoVars, fsPath, jcrPath2, otherThanJcr >>

ConvertAgain ==
  /\ fnCall = "converted"
  /\ fnCall' = "converted twice"
  /\ jcrPath2' = filesystem_to_jcr(jcrPath)
  /\ UNCHANGED << repoVars, fsPath, jcrPath, otherThanJcr >>

NextJcr == Convert \/ ConvertAgain

SpecJcr == InitJcr /\ [][NextJcr]_vars

\* The reference transformation, written by position.
Suffixes ==
  << <<"/", ".content", ".xml">>, <<".content", ".xml">>, <<".xml">> >>

HasSuffix(p) == \E i \in DOMAIN Suffixes : EndsWith(p, Suffixes[i])

FirstSuffix(p) ==
  CHOOSE i \in DOMAIN Suffixes :
    /\ EndsWith(p, Suffixes[i])
    /\ \A k \in 1..(i - 1) : ~EndsWith(p, Suffixes[k])

RefStrip(p) ==
  IF HasSuffix(p) THEN DropLast(p, Len(Suffixes[FirstSuffix(p)])) ELSE p

OccursAt(s, pat, i) ==
  i + Len(pat) - 1 <= Len(s) /\ SubSeq(s, i, i + Len(pat) - 1) = pat

\* Start positions of the occurrences that are replaced, up to position i.
RECURSIVE Taken(_, _, _)
Taken(s, pat, i) ==
  IF i = 0 THEN {}
  ELSE LET prev == Taken(s, pat, i - 1)
       IN IF OccursAt(s, pat, i) /\ \A j \in prev : j + Len(pat) <= i
            THEN prev \cup {i} ELSE prev

RECURSIVE Flatten(_)
Flatten(pieces) ==
  IF pieces = <<>> THEN <<>> ELSE Head(pieces) \o Flatten(Tail(pieces))

RefReplace(s, pat, new) ==
  LET T == Taken(s, pat, Len(s))
  IN Flatten([i \in 1..Len(s) |->
                IF i \in T THEN new
                ELSE IF \E j \in T : j < i /\ i < j + Len(pat) THEN <<>>
                ELSE <<s[i]>>])

RECURSIVE RefTokens(_, _)
RefTokens(p, k) ==
  IF k = 0 THEN p
  ELSE RefReplace(RefTokens(p, k - 1), TokenOf(NamespaceOrder[k]),
                  ColonFormOf(NamespaceOrder[k]))

EscapeAt(s, i) == s[i] = "%" /\ i < Len(s) /\ IsHex(s[i + 1])

RefDecode(s) ==
  Flatten([i \in 1..Len(s) |->
             IF EscapeAt(s, i) THEN <<Unhex(s[i + 1])>>
             ELSE IF i > 1 /\ EscapeAt(s, i - 1) THEN <<>>
             ELSE <<s[i]>>])

Reference(p) == RefDecode(RefTokens(RefStrip(p), Len(NamespaceOrder)))

HasToken(p) == \E ns \in Namespaces : HasSub(p, TokenOf(ns))
HasEscape(p) == \E i \in DOMAIN p : EscapeAt(p, i)

\* C16 as stated: converting a converted path changes nothing, for every
\* path.
C16_Idempotent ==
  fnCall = "converted twice" => jcrPath2 = jcrPath

\* A converted path that holds nothing the conversion acts on.
Clean(q) == ~EndsWith(q, <<".xml">>) /\ ~HasToken(q) /\ ~HasEscape(q)

\* C16 amended: when the converted path neither ends in .xml nor holds a
\* namespace token nor a percent escape, converting it again changes
\* nothing.
C16_IdempotentOnClean ==
  (fnCall = "converted twice" /\ Clean(jcrPath)) => jcrPath2 = jcrPath

\* A path with a token and a suffix was converted, and converting the
\* result again left it alone.
C16_Witness ==
  /\ fnCall = "converted twice"
  /\ HasToken(fsPath)
  /\ HasSuffix(fsPath)
  /\ jcrPath # fsPath
  /\ Clean(jcrPath)
  /\ jcrPath2 = jcrPath

\* C17: the conversion equals the reference transformation (strip one
\* suffix, replace every namespace token, percent-decode), and a path
\* without suffix and token is only decoded.
C17_EqualsReference ==
  fnCall # "none" =>
    /\ jcrPath = Reference(fsPath)
    /\ (~HasSuffix(fsPath) /\ ~HasToken(fsPath)) => jcrPath = RefDecode(fsPath)

\* Two tokens sharing an underscore were converted: the one listed first
\* in the table wins.
C17_Witness ==
  /\ fnCall = "converted"
  /\ fsPath = <<"_", "cq", "_", "jcr", "_">>
  /\ jcrPath = <<"_", "cq", "jcr", ":">>

\* ======================================================= validate_jcr_root
MaxParts == 4
ResolvedPaths == UNION {[1..n -> Names] : n \in 0..MaxParts}

\* "/".join(parts)
RECURSIVE JoinSlash(_)
JoinSlash(parts) ==
  IF parts = <<>> THEN <<>>
  ELSE IF Len(parts) = 1 THEN Head(parts)
  ELSE Head(parts) \o <<"/">> \o JoinSlash(Tail(parts))

\* "/" + "/".join(parts[jcr_root_index + 1:]) if any part is left, else "/"
FilterPathString(rest) ==
  IF Len(rest) > 0 THEN <<"/">> \o JoinSlash(rest) ELSE <<"/">>

\* What a call of validate_jcr_root gives its caller: the returned pair, or
\* the click.UsageError it raised.
ValidateOutcome(p) ==
  LET v == validate_jcr_root(p)
  IN [ ok |-> v.ok,
       jcr_root_path |-> v.jcr_root_path,
       filter_path |-> IF v.ok THEN FilterPathString(v.filter_path) ELSE <<>>,
       error |-> IF v.ok THEN "none" ELSE "UsageError" ]

otherThanValidate ==
  << diffVars, mangleVars, jcrVars, excludesVars, zipVars,
     laterVars >>

InitValidate ==
  /\ RepoIdle
  /\ fnCall = "none"
  /\ DiffIdle
  /\ MangleIdle
  /\ JcrIdle
  /\ resolvedPath \in ResolvedPaths
  /\ validated = [ ok |-> FALSE, jcr_root_path |-> <<>>,
                   filter_path |-> <<>>, error |-> "none" ]
  /\ ExcludesIdle
  /\ ZipIdle
  /\ LaterIdle

ValidateJcrRoot ==
  /\ fnCall = "none"
  /\ fnCall' = "validate"
  /\ validated' = ValidateOutcome(resolvedPath)
  /\ UNCHANGED << repoVars, resolvedPath, otherThanValidate >>

NextValidate == ValidateJcrRoot

SpecValidate == InitValidate /\ [][NextValidate]_vars

\* Positions of the components literally named jcr_root.
LiteralAt(p) == {i \in DOMAIN p : p[i] = <<"jcr_root">>}

\* "/" followed by the components joined by "/", "/" alone when none.
Slashed(rest) ==
  IF rest = <<>> THEN <<"/">>
  ELSE Flatten([i \in DOMAIN rest |-> <<"/">> \o rest[i]])

\* C18: validate_jcr_root succeeds exactly when a component is literally
\* jcr_root; it returns the prefix up to the first such component and the
\* filter path of the remaining components; any other path, one with
\* jcr_root only inside a component included, raises a UsageError.
C18_ValidateJcrRoot ==
  fnCall = "validate" =>
    IF LiteralAt(resolvedPath) # {}
      THEN /\ validated.ok
           /\ validated.error = "none"
           /\ \E i \in LiteralAt(resolvedPath) :
                /\ \A k \in LiteralAt(resolvedPath) : i <= k
                /\ validated.jcr_root_path = SubSeq(resolvedPath, 1, i)
                /\ validated.filter_path =
                     Slashed(SubSeq(resolvedPath, i + 1, Len(resolvedPath)))
      ELSE ~validated.ok /\ validated.error = "UsageError"

\* A path with two jcr_root components and a component holding jcr_root as
\* a substring before them was validated.
C18_Witness ==
  /\ fnCall = "validate"
  /\ Len(resolvedPath) >= 3
  /\ resolvedPath[1] = <<"my_", "jcr_root">>
  /\ Cardinality(LiteralAt(resolvedPath)) = 2
  /\ validated.ok
  /\ validated.filter_path # <<"/">>

\* ============================================================ get_excludes
\* A line is a sequence of tokens, " " being white space; a pattern is a
\* line without white space around it.
MaxLines == 2
IgnoreLines == { <<" ">>, <<"*.tmp">>, <<" ", "*.log", " ">> }
IgnoreContents == UNION {[1..n -> IgnoreLines] : n \in 0..MaxLines}

\* ignore_files, in the order they are read
IGNORE_FILES == <<".gitignore", ".vltignore", ".repoignore">>

\* An ignore file is missing, or cannot be read, or holds lines.
IgnoreFileStates ==
  { [exists |-> FALSE, readable |-> FALSE, lines |-> <<>>],
    [exists |-> TRUE, readable |-> FALSE, lines |-> <<>>] }
  \cup { [exists |-> TRUE, readable |-> TRUE, lines |-> c] :
           c \in IgnoreContents }

\* the initial `excludes` list
DEFAULT_EXCLUDES ==
  << <<"__pycache__">>, <<".git">>, <<".vscode">>, <<".DS_Store">>,
     <<"Thumbs.db">>, <<".idea">> >>

\* str.strip()
RECURSIVE LStrip(_)
LStrip(line) ==
  IF line # <<>> /\ Head(line) = " " THEN LStrip(Tail(line)) ELSE line

RECURSIVE RStrip(_)
RStrip(line) ==
  IF line # <<>> /\ line[Len(line)] = " "
    THEN RStrip(SubSeq(line, 1, Len(line) - 1)) ELSE line

Strip(line) == RStrip(LStrip(line))

\* line.strip() for line in f if line.strip()
RECURSIVE StrippedLines(_)
StrippedLines(lines) ==
  IF lines = <<>> THEN <<>>
  ELSE (IF Strip(Head(lines)) # <<>> THEN <<Strip(Head(lines))>> ELSE <<>>)
         \o StrippedLines(Tail(lines))

\* The loop over ignore_files: a missing file is skipped, a file that
\* cannot be read is logged and skipped.
RECURSIVE ExtendFrom(_, _, _)
ExtendFrom(acc, names, files) ==
  IF names = <<>> THEN acc
  ELSE LET f == files[Head(names)]
       IN ExtendFrom(
            IF f.exists /\ f.readable THEN acc \o StrippedLines(f.lines)
            ELSE acc,
            Tail(names), files)

get_excludes(files) == ExtendFrom(DEFAULT_EXCLUDES, IGNORE_FILES, files)

IgnoreFileNames == {IGNORE_FILES[i] : i \in DOMAIN IGNORE_FILES}

otherThanExcludes ==
  << diffVars, mangleVars, jcrVars, validateVars, zipVars,
     laterVars >>

InitExcludes ==
  /\ RepoIdle
  /\ fnCall = "none"
  /\ DiffIdle
  /\ MangleIdle
  /\ JcrIdle
  /\ ValidateIdle
  /\ ignoreFiles \in [IgnoreFileNames -> IgnoreFileStates]
  /\ excludes = <<>>
  /\ ZipIdle
  /\ LaterIdle

GetExcludes ==
  /\ fnCall = "none"
  /\ fnCall' = "get_excludes"
  /\ excludes' = get_excludes(ignoreFiles)
  /\ UNCHANGED << repoVars, ignoreFiles, otherThanExcludes >>

NextExcludes == GetExcludes

SpecExcludes == InitExcludes /\ [][NextExcludes]_vars

ExcludeSet == {excludes[i] : i \in DOMAIN excludes}

IsBlank(line) == \A i \in DOMAIN line : line[i] = " "

\* C19: the result of get_excludes holds ".repo", ".vlt" and ".DS_Store",
\* and the pattern of every non-blank line of the ignore files that can be
\* read.
C19_ExcludesDefaultsAndLines ==
  fnCall = "get_excludes" =>
    /\ {<<".repo">>, <<".vlt">>, <<".DS_Store">>} \subseteq ExcludeSet
    /\ \A n \in IgnoreFileNames :
         (ignoreFiles[n].exists /\ ignoreFiles[n].readable) =>
           \A i \in DOMAIN ignoreFiles[n].lines :
             ~IsBlank(ignoreFiles[n].lines[i]) =>
               SelectSeq(ignoreFiles[n].lines[i], LAMBDA t : t # " ")
                 \in ExcludeSet

\* ============================================================== create_zip
\* The staging directory as the set of its entries: the path below the
\* staging root and whether it is a file or a directory.  The root always
\* holds the archive being written, pkg.zip, and the jcr_root directory;
\* below jcr_root every name is absent, a file or a directory.
MaxTreeDepth == 3
ZIP_NAME == "pkg.zip"
ContentNames == <<"apps", "pkg.zip">>

Prefixed(n, tree) ==
  {[path |-> <<n>> \o e.path, kind |-> e.kind] : e \in tree}

RECURSIVE Trees(_)
Trees(d) ==
  IF d = 0 THEN {{}}
  ELSE LET sub == Trees(d - 1)
           opts(n) ==
             {{}} \cup {{[path |-> <<n>>, kind |-> "file"]}}
               \cup {{[path |-> <<n>>, kind |-> "dir"]} \cup Prefixed(n, t) :
                       t \in sub}
       IN {o1 \cup o2 : o1 \in opts(ContentNames[1]),
                        o2 \in opts(ContentNames[2])}

StagingTrees ==
  { { [path |-> <<ZIP_NAME>>, kind |-> "file"],
      [path |-> <<"jcr_root">>, kind |-> "dir"] }
      \cup Prefixed("jcr_root", t) : t \in Trees(MaxTreeDepth - 1) }

\* The names os.walk lists in a directory, in one fixed order.
WalkOrder == <<"jcr_root">> \o ContentNames

\* `dirs` or `files` of one step of os.walk
Listed(tree, dir, kind) ==
  SelectSeq(WalkOrder,
            LAMBDA n : [path |-> dir \o <<n>>, kind |-> kind] \in tree)

\* for dir_name in dirs: zipf.writestr(str(arc_dir_path) + "/", "")
DirEntries(tree, dir) ==
  [i \in DOMAIN Listed(tree, dir, "dir") |->
     [path |-> dir \o <<Listed(tree, dir, "dir")[i]>>, kind |-> "dir"]]

\* `if file != "pkg.zip"`, negated
SkipsFile(dir, file) == file = ZIP_NAME

\* for file in files: if file != "pkg.zip": zipf.write(file_path, arc_path)
FileEntries(tree, dir) ==
  LET kept == SelectSeq(Listed(tree, dir, "file"),
                        LAMBDA n : ~SkipsFile(dir, n))
  IN [i \in DOMAIN kept |-> [path |-> dir \o <<kept[i]>>, kind |-> "file"]]

\* os.walk(temp_dir), top down
RECURSIVE Walk(_, _)
Walk(tree, dir) ==
  LET dirs == Listed(tree, dir, "dir")
  IN DirEntries(tree, dir) \o FileEntries(tree, dir)
       \o Flatten([i \in DOMAIN dirs |-> Walk(tree, dir \o <<dirs[i]>>)])

create_zip(tree) == Walk(tree, <<>>)

otherThanZip ==
  << diffVars, mangleVars, jcrVars, validateVars, excludesVars,
     laterVars >>

InitZip ==
  /\ RepoIdle
  /\ fnCall = "none"
  /\ DiffIdle
  /\ MangleIdle
  /\ JcrIdle
  /\ ValidateIdle
  /\ ExcludesIdle
  /\ staging \in StagingTrees
  /\ archive = <<>>
  /\ LaterIdle

CreateZip ==
  /\ fnCall = "none"
  /\ fnCall' = "create_zip"
  /\ archive' = create_zip(staging)
  /\ UNCHANGED << repoVars, staging, otherThanZip >>

NextZip == CreateZip

SpecZip == InitZip /\ [][NextZip]_vars

\* How often an entry is in the archive.
TimesArchived(e) == Cardinality({i \in DOMAIN archive : archive[i] = e})

\* The archive's own output file.
OwnOutput == [path |-> <<ZIP_NAME>>, kind |-> "file"]

\* C20: the archive holds exactly one entry for every file and every
\* directory of the staging tree except its own output file at the staging
\* root, and nothing else; no file below jcr_root is left out.
C20_ArchiveHoldsStagingTree ==
  fnCall = "create_zip" =>
    /\ \A e \in staging \ {OwnOutput} : TimesArchived(e) = 1
    /\ \A i \in DOMAIN archive : archive[i] \in staging \ {OwnOutput}

\* ============================================================ copy_content
\* The operations of the earlier sections, idle.
earlierVars ==
  << diffVars, mangleVars, jcrVars, validateVars, excludesVars, zipVars >>

EarlierIdle ==
  /\ DiffIdle
  /\ MangleIdle
  /\ JcrIdle
  /\ ValidateIdle
  /\ ExcludesIdle
  /\ ZipIdle

\* A name is a sequence of tokens, so that a pattern can be a part of it;
\* a pattern is a sequence of tokens too, "/" being the path separator.
MaxCopyDepth == 2
CopyNames == { <<"apps">>, <<".git">>, <<"my", ".git", "hub">>, <<"x", ".tmp">> }
CopyPatterns == { <<".git">>, <<".tmp">>, <<"apps", "/">> }

\* What is copied: one file, seen from the source handed to copy_content.
\* `above` is the source path itself; for a directory source the file lies
\* below the directories `dirs`, for a file source it is the source.
CopySources ==
  { [kind |-> "dir", above |-> <<a>>, dirs |-> d, file |-> f] :
      a \in CopyNames,
      d \in UNION {[1..n -> CopyNames] : n \in 0..MaxCopyDepth},
      f \in CopyNames }
  \cup
  { [kind |-> "file", above |-> <<a>>, dirs |-> <<>>, file |-> f] :
      a \in CopyNames, f \in CopyNames }

\* str(path) of a path given by its components
PathString(comps) == Flatten([i \in DOMAIN comps |-> <<"/">> \o comps[i]])

\* should_exclude: pattern in str(path) or path.name == pattern
should_exclude(comps, patterns) ==
  \E p \in patterns :
    HasSub(PathString(comps), p) \/ comps[Len(comps)] = p

\* The walk reaches the file when no directory on the way is pruned, and
\* copies it when it is not excluded itself; a file source is only checked
\* itself.
copy_content(src, patterns) ==
  IF src.kind = "file"
    THEN ~should_exclude(src.above \o <<src.file>>, patterns)
    ELSE /\ \A k \in 1..Len(src.dirs) :
              ~should_exclude(src.above \o SubSeq(src.dirs, 1, k), patterns)
         /\ ~should_exclude(src.above \o src.dirs \o <<src.file>>, patterns)

InitCopy ==
  /\ RepoIdle
  /\ fnCall = "none"
  /\ EarlierIdle
  /\ LaterIdleExcept("copy")
  /\ copySource \in CopySources
  /\ copyExcludes \in SUBSET CopyPatterns
  /\ copied = FALSE

CopyContent ==
  /\ fnCall = "none"
  /\ fnCall' = "copy_content"
  /\ copied' = copy_content(copySource, copyExcludes)
  /\ UNCHANGED << repoVars, earlierVars, copySource, copyExcludes >>
  /\ LaterUnchangedExcept("copy")

NextCopy == CopyContent

SpecCopy == InitCopy /\ [][NextCopy]_vars

\* A pattern equals a name or is a part of it.
NameMatches(p, name) == p = name \/ HasSub(name, p)

\* The file's own name and the names of the directories between the source
\* root and the file.
NamesBelowRoot(src) == {src.file} \cup {src.dirs[i] : i \in DOMAIN src.dirs}

\* C21: a file is copied exactly when no exclude pattern equals or is part
\* of its own name or of the name of a directory between the source root
\* and the file, whatever the directories above the source root are called.
C21_CopiedIffNoNameMatches ==
  fnCall = "copy_content" =>
    ( copied <=>
        \A p \in copyExcludes : \A n \in NamesBelowRoot(copySource) :
          ~NameMatches(p, n) )

\* ================================================= find_or_create_jcr_root
\* Directory names: jcr_root itself, names that hold jcr_root at their end
\* or at their start, and a name without it.
MaxCwdLen == 3
FindNames == Names \cup { <<"jcr_root", "_old">> }
FindCwds == UNION {[1..n -> FindNames] : n \in 0..MaxCwdLen}

\* current_dir and its ancestors
AncestorsOrSelf(p) == {SubSeq(p, 1, k) : k \in 0..Len(p)}

\* Places where a directory named jcr_root may or may not exist: below
\* current_dir and next to each of its ancestors.
JcrRootPlaces(p) == {Append(a, JCR_ROOT) : a \in AncestorsOrSelf(p)}

InitFind ==
  /\ RepoIdle
  /\ fnCall = "none"
  /\ EarlierIdle
  /\ LaterIdleExcept("find")
  /\ focCwd \in FindCwds
  /\ \E more \in SUBSET JcrRootPlaces(focCwd) :
       focDirs = AncestorsOrSelf(focCwd) \cup more
  /\ focResult = [path |-> <<>>, created |-> FALSE]

\* jcr_root_candidate.exists() is asked of the directories that exist;
\* jcr_root_candidate.mkdir() adds one.
FindOrCreate ==
  /\ fnCall = "none"
  /\ fnCall' = "find_or_create_jcr_root"
  /\ LET r == find_or_create_jcr_root(focCwd,
                                      Append(focCwd, JCR_ROOT) \in focDirs)
     IN /\ focResult' = r
        /\ focDirs' = IF r.created THEN focDirs \cup {r.path} ELSE focDirs
  /\ UNCHANGED << repoVars, earlierVars, focCwd >>
  /\ LaterUnchangedExcept("find")

NextFind == FindOrCreate

SpecFind == InitFind /\ [][NextFind]_vars

\* C22: the returned path ends in a component literally named jcr_root,
\* exists as a directory, and is an ancestor-or-self of the current
\* directory or its direct child jcr_root.
C22_FindReturnsJcrRoot ==
  fnCall = "find_or_create_jcr_root" =>
    /\ focResult.path # <<>>
    /\ focResult.path[Len(focResult.path)] = <<"jcr_root">>
    /\ focResult.path \in focDirs
    /\ \/ focResult.path \in AncestorsOrSelf(focCwd)
       \/ focResult.path = Append(focCwd, <<"jcr_root">>)

\* ====================================================== asset_remove_unused
\* Three DAM assets below jcr_root, named by their repository path; the
\* folder of the second lies inside the folder of the first.
ASSET_A == <<"content", "dam", "a">>
ASSET_B == <<"content", "dam", "a", "b">>
ASSET_C == <<"content", "dam", "c">>
AssetPaths == {ASSET_A, ASSET_B, ASSET_C}

\* .content.xml files outside the asset folders: a page and a DAM folder.
ContentFiles == {"page", "folder"}

\* check_asset_references: references['files']
FileRefs(asset, refs) == {f \in ContentFiles : asset \in refs[f]}

\* check_asset_references: references['thumbnail_refs'] (the elif branch,
\* with check_folder_thumbnail_paths)
ThumbnailRefs(asset, refs, thumbs) ==
  {f \in ContentFiles : asset \notin refs[f] /\ asset \in thumbs[f]}

\* the loop over asset_files: every asset not in used_assets
UnusedAssets(found, refs) == {a \in found : FileRefs(a, refs) = {}}

\* the elif branch of the loop over asset_files
ThumbnailOnly(found, refs, thumbs) ==
  {a \in UnusedAssets(found, refs) : ThumbnailRefs(a, refs, thumbs) # {}}

\* clean_folder_thumbnail_paths for every thumbnail-only asset and every
\* file that names it
CleanThumbnails(thumbs, refs, thumbOnly) ==
  [f \in ContentFiles |->
     thumbs[f] \ {a \in thumbOnly : f \in ThumbnailRefs(a, refs, thumbs)}]

\* shutil.rmtree(asset_folder): the folder and every folder inside it
RemoveTree(folders, asset) == {f \in folders : ~IsPrefix(asset, f)}

\* Mutant: the dry run deletes too.
Deletes_AlsoDryRun(dry_run) == TRUE

\* delete_asset_folder: `if dry_run` only echoes
Deletes(dry_run) == ~dry_run

\* delete_asset_folder for the assets of `todo`, one after the other
RECURSIVE RemoveTrees(_, _)
RemoveTrees(folders, todo) ==
  IF todo = {} THEN folders
  ELSE LET a == CHOOSE x \in todo : TRUE
       IN RemoveTrees(RemoveTree(folders, a), todo \ {a})

InitAsset ==
  /\ RepoIdle
  /\ fnCall = "none"
  /\ EarlierIdle
  /\ LaterIdleExcept("asset")
  /\ asDryRun \in BOOLEAN
  /\ asRefs \in [ContentFiles -> SUBSET AssetPaths]
  /\ asThumbs \in [ContentFiles -> SUBSET AssetPaths]
  /\ asThumbs0 = asThumbs
  /\ asFolders = AssetPaths
  /\ asPc = "scan"
  /\ asAnswer = "none"
  /\ asUnused = {}
  /\ asThumbOnly = {}
  /\ asOps = <<>>

\* From the start to the summary: without unused assets the run ends; a
\* dry run lists what it would delete and ends; else the prompt follows.
AssetScan ==
  /\ asPc = "scan"
  /\ asUnused' = UnusedAssets(asFolders, asRefs)
  /\ asThumbOnly' = ThumbnailOnly(asFolders, asRefs, asThumbs)
  /\ IF asUnused' = {} THEN asPc' = "done" /\ UNCHANGED << asFolders, asOps >>
     ELSE IF asDryRun
       THEN /\ asPc' = "done"
            /\ asFolders' = IF Deletes(asDryRun)
                              THEN RemoveTrees(asFolders, asUnused')
                              ELSE asFolders
            /\ asOps' = IF Deletes(asDryRun) THEN <<"delete">> ELSE <<>>
     ELSE asPc' = "confirm" /\ UNCHANGED << asFolders, asOps >>
  /\ fnCall' = "asset_remove_unused"
  /\ UNCHANGED << repoVars, earlierVars, asDryRun, asRefs, asThumbs,
                  asThumbs0, asAnswer >>
  /\ LaterUnchangedExcept("asset")

\* click.confirm("Do you want to proceed with the deletion?")
AssetConfirm ==
  /\ asPc = "confirm"
  /\ \E a \in {"yes", "no"} :
       /\ asAnswer' = a
       /\ asPc' = IF a = "yes" THEN "clean" ELSE "done"
  /\ UNCHANGED << repoVars, earlierVars, fnCall, asDryRun, asRefs, asThumbs,
                  asThumbs0, asFolders, asUnused, asThumbOnly, asOps >>
  /\ LaterUnchangedExcept("asset")

\* "First, clean up folderThumbnailPaths references"
AssetClean ==
  /\ asPc = "clean"
  /\ asPc' = "delete"
  /\ asThumbs' = CleanThumbnails(asThumbs, asRefs, asThumbOnly)
  /\ asOps' = IF asThumbOnly # {} THEN Append(asOps, "clean") ELSE asOps
  /\ UNCHANGED << repoVars, earlierVars, fnCall, asDryRun, asRefs, asThumbs0,
                  asFolders, asAnswer, asUnused, asThumbOnly >>
  /\ LaterUnchangedExcept("asset")

\* "Then delete asset folders"; an rmtree that raises leaves its folder.
AssetDelete ==
  /\ asPc = "delete"
  /\ asPc' = "done"
  /\ \E failed \in SUBSET asUnused :
       asFolders' = IF Deletes(asDryRun)
                      THEN RemoveTrees(asFolders, asUnused \ failed)
                      ELSE asFolders
  /\ asOps' = Append(asOps, "delete")
  /\ UNCHANGED << repoVars, earlierVars, fnCall, asDryRun, asRefs, asThumbs,
                  asThumbs0, asAnswer, asUnused, asThumbOnly >>
  /\ LaterUnchangedExcept("asset")

NextAsset == AssetScan \/ AssetConfirm \/ AssetClean \/ AssetDelete

SpecAsset == InitAsset /\ [][NextAsset]_vars

\* An asset named by an image or fileReference property of some file.
Referenced(asset) == \E f \in ContentFiles : asset \in asRefs[f]

\* C23: after a run the folder of every referenced asset still exists.
C23_ReferencedAssetsKept ==
  asPc = "done" =>
    \A a \in AssetPaths : Referenced(a) => a \in asFolders

\* C24: a dry run and a declined run change nothing; folders are deleted
\* and thumbnail paths rewritten only after an accepted confirmation, the
\* thumbnail paths first.
C24_OnlyAfterConfirmation ==
  /\ (asDryRun \/ asAnswer # "yes")
       => (asFolders = AssetPaths /\ asThumbs = asThumbs0 /\ asOps = <<>>)
  /\ asOps \in {<<>>, <<"clean">>, <<"delete">>, <<"clean", "delete">>}
  /\ (asPc # "idle" /\ asFolders # AssetPaths) =>
       (asOps # <<>> /\ asOps[Len(asOps)] = "delete")
  /\ (asPc = "done" /\ asAnswer = "yes" /\ asThumbOnly # {})
       => asOps = <<"clean", "delete">>

\* An accepted run cleaned a thumbnail path and then deleted the folder.
C24_Witness ==
  /\ asPc = "done"
  /\ asAnswer = "yes"
  /\ asThumbs # asThumbs0
  /\ asFolders # AssetPaths
  /\ asOps = <<"clean", "delete">>

\* ============================================== claims on whole invocations
\* The operations issued so far, by name.
RemoteOps == [i \in DOMAIN remote |-> remote[i].op]

AllSucceeded == \A i \in DOMAIN remote : Succeeds(remote[i].op, remote[i].resp)

DiffUnavailable ==
  report \in {"Diff command not available", "Diff operation timed out"}

\* C25: when the diff executable is missing or times out during status or
\* diff, the invocation reports it and ends without error, after upload,
\* build, download and delete have all completed.
C25_DiffToolFailureNotFatal ==
  (handler \in {"status", "localdiff", "serverdiff"} /\ DiffUnavailable) =>
    /\ pc = "done"
    /\ exitCode = 0
    /\ errKind = "none"
    /\ RemoteOps = <<"upload", "build", "download", "delete">>
    /\ AllSucceeded

\* A status run whose diff executable was missing has ended.
C25_Witness ==
  /\ handler = "status"
  /\ report = "Diff command not available"
  /\ pc = "done"
  /\ exitCode = 0

\* =====================================================================
\* Two invocations against one server (no coordination between processes)
\* =====================================================================
Invocations == {1, 2}

\* Command functions that upload a package.
RaceHandlers == {"put", "get", "status", "localdiff", "serverdiff"}

\* Filter paths of the two invocations: /apps, /apps/x and /apps-x.
RaceFilters ==
  { << <<"apps">> >>, << <<"apps">>, <<"x">> >>, << <<"apps", "-", "x">> >> }

\* package_path of invocation i, as it appears in the request URLs.
RacePath(i) ==
  PackagePath(DEFAULT_PACKAGE_GROUP, PackageName(rcFilter[i]), rcTime[i])

\* The invocation whose archive the server holds at path p; 0 when none.
OwnerAt(store, p) ==
  IF \E e \in store : e.path = p
    THEN (CHOOSE e \in store : e.path = p).owner
    ELSE 0

\* The package manager's answer: upload (force=true) replaces whatever is
\* at the path; the other commands address a package by its path and are
\* refused when nothing is there.
ServerResponse(op, store, p) ==
  IF op = "upload" \/ OwnerAt(store, p) # 0 THEN "ok_true"
  ELSE IF op = "download" THEN "http_error"
  ELSE "ok_false"

ServerStore(op, store, p, i) ==
  CASE op = "upload" ->
         {e \in store : e.path # p} \cup {[path |-> p, owner |-> i]}
    [] op = "delete" -> {e \in store : e.path # p}
    [] OTHER -> store

InitRace ==
  /\ RepoIdle
  /\ fnCall = "none"
  /\ EarlierIdle
  /\ LaterIdleExcept("race")
  /\ rcCmd \in [Invocations -> RaceHandlers]
  /\ rcFilter \in [Invocations -> RaceFilters]
  /\ rcTime \in [Invocations -> Clock]
  /\ rcPc = [i \in Invocations |-> "upload"]
  /\ rcStore = {}
  /\ rcLog = <<>>

\* One blocking request of invocation i.  A refused request raises and ends
\* the invocation; after its last request the invocation goes on locally.
RaceCall(i, op) ==
  /\ rcPc[i] = op
  /\ LET p == RacePath(i)
         r == ServerResponse(op, rcStore, p)
     IN /\ rcLog' = Append(rcLog,
             [ who |-> i, op |-> op, resp |-> r,
               owner |-> IF op = "upload" THEN i ELSE OwnerAt(rcStore, p) ])
        /\ IF Succeeds(op, r)
             THEN /\ rcStore' = ServerStore(op, rcStore, p, i)
                  /\ rcPc' = [rcPc EXCEPT ![i] = AfterRemote(rcCmd[i], op)]
             ELSE /\ rcStore' = rcStore
                  /\ rcPc' = [rcPc EXCEPT ![i] = "failed"]
  /\ UNCHANGED << repoVars, earlierVars, fnCall, rcCmd, rcFilter, rcTime >>
  /\ LaterUnchangedExcept("race")

RaceUpload == \E i \in Invocations : RaceCall(i, "upload")
RaceBuild == \E i \in Invocations : RaceCall(i, "build")
RaceInstall == \E i \in Invocations : RaceCall(i, "install")
RaceDownload == \E i \in Invocations : RaceCall(i, "download")
RaceDelete == \E i \in Invocations : RaceCall(i, "delete")

NextRace ==
  RaceUpload \/ RaceBuild \/ RaceInstall \/ RaceDownload \/ RaceDelete

SpecRace == InitRace /\ [][NextRace]_vars

\* Request k of the log is a build, install or download of invocation i
\* that was refused.
RefusedAt(i, k) ==
  /\ rcLog[k].who = i
  /\ rcLog[k].op \in {"build", "install", "download"}
  /\ ~Succeeds(rcLog[k].op, rcLog[k].resp)

\* Request k is a build, install or download of invocation i that was
\* served from an archive another invocation uploaded.
ForeignAt(i, k) ==
  /\ rcLog[k].who = i
  /\ rcLog[k].op \in {"build", "install", "download"}
  /\ Succeeds(rcLog[k].op, rcLog[k].resp)
  /\ rcLog[k].owner # i

\* Between the upload of invocation i and its request k, the server
\* answered a delete or an upload of the other invocation.
OtherBetween(i, k) ==
  \E u \in 1..(k - 1) : \E j \in (u + 1)..(k - 1) :
    /\ rcLog[u].who = i /\ rcLog[u].op = "upload"
    /\ rcLog[j].who # i /\ rcLog[j].op \in {"delete", "upload"}
    /\ Succeeds(rcLog[j].op, rcLog[j].resp)

SameNameAndSecond ==
  /\ PackageName(rcFilter[1]) = PackageName(rcFilter[2])
  /\ rcTime[1] = rcTime[2]

\* C26: two invocations whose filter paths give the same package name and
\* that start within the same second address the same package path on the
\* server; and an invocation whose build, install or download is refused, or
\* is served from an archive it did not upload, is one of two such
\* invocations, the other's delete or upload having been answered between
\* its own upload and that request.
C26_RaceOnPackagePath ==
  /\ rcLog # <<>> /\ SameNameAndSecond => RacePath(1) = RacePath(2)
  /\ \A i \in Invocations : \A k \in DOMAIN rcLog :
       RefusedAt(i, k) \/ ForeignAt(i, k) =>
         /\ SameNameAndSecond
         /\ RacePath(1) = RacePath(2)
         /\ OtherBetween(i, k)

\* The interleaving exists: different filter paths, one package path, one
\* invocation served from the other's archive and the other refused.
C26_Witness ==
  /\ rcLog # <<>>
  /\ rcFilter[1] # rcFilter[2]
  /\ \E i \in Invocations : \E k \in DOMAIN rcLog :
       ForeignAt(i, k) /\ OtherBetween(i, k)
  /\ \E i \in Invocations : \E k \in DOMAIN rcLog :
       RefusedAt(i, k) /\ OtherBetween(i, k)

\* ------------------------------------------------------------- checkout
\* JCR_PATH passes the two checks of checkout.
AcceptedOperand == StartsWithSlash(operand) /\ operand # <<"/">>

\* The components of JCR_PATH.
OperandPath == SplitSlash(LStripSlash(operand), <<>>)

\* C27: for every JCR_PATH that checkout accepts and every working
\* directory, get runs on a local target inside the jcr_root that
\* find_or_create_jcr_root returned, its filter path is JCR_PATH, and the
\* invocation does not end in a UsageError after it has created local
\* directories.
C27_CheckoutRunsGet ==
  (cmd = "checkout" /\ AcceptedOperand) =>
    /\ handler = "get" =>
         IsPrefix(find_or_create_jcr_root(cwd, cwdHasJcrRoot).path, path)
    /\ (handler = "get" /\ pc \notin {"configure", "validate"}
          /\ errKind # "UsageError") => filterPath = OperandPath
    /\ errKind = "UsageError" => localOps = <<>>

\* Remote operation `op` was issued and answered with success.
Succeeded(op) ==
  \E i \in DOMAIN remote : remote[i].op = op /\ Succeeds(op, remote[i].resp)

\* C28: an invocation of put, get, status or diff whose upload succeeded
\* has issued the delete of the uploaded package by the time it ends, also
\* when a later build, install or download failed.
C28_UploadedPackageDeleted ==
  (pc = "done" /\ Succeeded("upload")) => Issued("delete")

\* The local content at the target is as it was before the invocation.
LocalUnchanged == local = local0 /\ localOps = <<>>

\* C29: get leaves the local content at the target unchanged unless upload,
\* build, download and delete have all succeeded, the archive was extracted
\* and holds content at the filter path, and the user has not declined;
\* existing content is removed only then.
C29_GetChangesLocalLast ==
  (cmd = "get" /\ ~LocalUnchanged) =>
    /\ RemoteOps = <<"upload", "build", "download", "delete">>
    /\ AllSucceeded
    /\ remoteKind \in {"file", "dir"}
    /\ answer # "no"
    /\ errKind = "none"

C29_Witness ==
  /\ cmd = "get"
  /\ local0.kind = "dir"
  /\ localOps = <<"rmtree", "copy">>
  /\ local.data = "new"
  /\ answer = "yes"

\* C30: status, st, diff, localdiff and serverdiff leave the local content
\* unchanged on every exit path and never issue install; their remote
\* operations are a prefix of upload, build, download, delete.
C30_StatusDiffReadOnly ==
  cmd \in {"status", "st", "diff", "localdiff", "serverdiff"} =>
    /\ LocalUnchanged
    /\ ~Issued("install")
    /\ IsPrefix(RemoteOps, <<"upload", "build", "download", "delete">>)

C30_Witness ==
  /\ cmd = "serverdiff"
  /\ pc = "done"
  /\ report = "comparison"
  /\ local0.kind = "dir"
  /\ RemoteOps = <<"upload", "build", "download", "delete">>

====
